---- MODULE Spec2Model ----
(***************************************************************************)
(* RGB indicator driver (TI LP5817) of LooUQ/RGB-Indicator.               *)
(*                                                                         *)
(* Three execution contexts share one rgb_indicator_t record without any   *)
(* lock: the caller thread (the rgbi_* facade), the timer interrupt        *)
(* (flashTimerExpiry) and the system work queue (flashDisplay_handler).    *)
(* Every access to the shared record, every timer operation and every bus  *)
(* transaction is one step, so the three contexts interleave as they can   *)
(* on the target.                                                          *)
(***************************************************************************)
EXTENDS Integers, Sequences, FiniteSets, TLC

VARIABLES
    rgbi,             \* the rgb_indicator_t record
    flashTimer,       \* rgbi->flashTimer: [armed, remaining]
    workPending,      \* rgbi->flashWork is queued on the system work queue
    pc,               \* position of the caller thread
    wpc,              \* position of the work queue thread inside flashDisplay_handler
    setColorCtx,      \* per thread: the lp5817_setColor frame (next write, arguments)
    initRet,          \* what rgbi_init returned ("none" before it has run)
    initWriteFailed,  \* history: one of the i2c writes of lp5817_init failed
    colorWriteFailed, \* history: an i2c write of a color group failed (FaultSpec)
    busLog,           \* history: the i2c writes since the latest facade call was entered
    call,             \* history: the latest facade call and what held when it was entered
    callsLeft,        \* the facade calls the application still makes
    now               \* the clock (advanced by Tick only)

vars == <<rgbi, flashTimer, workPending, pc, wpc, setColorCtx,
          initRet, initWriteFailed, colorWriteFailed, busLog, call, callsLeft, now>>

----------------------------------------------------------------------------
(* Bounds of the model *)

MaxCalls == 3
MaxCount == 3
MaxDur == 2
MaxTime == 12
LogWindow == 6

(* Registers and commands, rgb-indicator.h *)

LP5817_REG_CHIPENABLE == 0
LP5817_REG_MAXCURRENT == 1
LP5817_REG_OUTENABLE == 2
LP5817_REG_DOTCURRENT_0 == 20
LP5817_REG_UPDATE == 15
LP5817_REG_INTENSITY0 == 24
LP5817_REG_INTENSITY1 == 25
LP5817_REG_INTENSITY2 == 26
LP5817_CMD_CHIPENABLE == 1
LP5817_CMD_MAXCURRENT == 1
LP5817_CMD_OUTENABLE == 7
LP5817_CMD_UPDATE == 85

dot_current == <<128, 128, 128>>

LED_OFF == [r |-> 0, g |-> 0, b |-> 0]
LED_RED == [r |-> 100, g |-> 0, b |-> 0]
LED_GREEN == [r |-> 0, g |-> 100, b |-> 0]

K_NO_WAIT == 0

Colors == {LED_RED, LED_GREEN}

\* channel values (uint8_t) the application passes when any color is set:
\* both ends of the range and values in between
Channels == {0, 1, 100, 128, 255}
AnyColor == [r : Channels, g : Channels, b : Channels]
FlashColors == {LED_RED}
Durations == 0..MaxDur
Counts == 0..MaxCount

\* i2c_write_dt returns 0 or a negative errno (-EIO)
WriteResults == {0, -5}

Threads == {"caller", "worker"}

----------------------------------------------------------------------------
(* Pure parts *)

\* mutant: the busy test reads the flash count instead of the idle sentinel
isFlashing_byCount(ind) == ind.flashesAsked > 0

isFlashing(ind) == ind.onDuration > 0

\* mutant: the channels go to the intensity registers in the order of the
\* data sheet
SetColorWrites_identity(c) ==
    << [reg |-> LP5817_REG_INTENSITY0, val |-> c.r],
       [reg |-> LP5817_REG_INTENSITY1, val |-> c.g],
       [reg |-> LP5817_REG_INTENSITY2, val |-> c.b] >>

\* the three register writes of lp5817_setColor, in the order issued
SetColorWrites(c) ==
    << [reg |-> LP5817_REG_INTENSITY2, val |-> c.r],
       [reg |-> LP5817_REG_INTENSITY0, val |-> c.g],
       [reg |-> LP5817_REG_INTENSITY1, val |-> c.b] >>

\* mutant: the LED is not set to (0,0,0) before the update write
InitWrites_noColor ==
    << [reg |-> LP5817_REG_CHIPENABLE, val |-> LP5817_CMD_CHIPENABLE],
       [reg |-> LP5817_REG_MAXCURRENT, val |-> LP5817_CMD_MAXCURRENT] >>
    \o [i \in 1..3 |-> [reg |-> LP5817_REG_DOTCURRENT_0 + (i - 1), val |-> dot_current[i]]]
    \o << [reg |-> LP5817_REG_OUTENABLE, val |-> LP5817_CMD_OUTENABLE],
          [reg |-> LP5817_REG_UPDATE, val |-> LP5817_CMD_UPDATE] >>

\* the register writes of lp5817_init on a ready bus, in the order issued
InitWrites ==
    << [reg |-> LP5817_REG_CHIPENABLE, val |-> LP5817_CMD_CHIPENABLE],
       [reg |-> LP5817_REG_MAXCURRENT, val |-> LP5817_CMD_MAXCURRENT] >>
    \o [i \in 1..3 |-> [reg |-> LP5817_REG_DOTCURRENT_0 + (i - 1), val |-> dot_current[i]]]
    \o << [reg |-> LP5817_REG_OUTENABLE, val |-> LP5817_CMD_OUTENABLE] >>
    \o SetColorWrites(LED_OFF)
    \o << [reg |-> LP5817_REG_UPDATE, val |-> LP5817_CMD_UPDATE] >>

\* mutant: the first failed write ends the initialization
lp5817_init_abort(ready, res) ==
    IF ~ready
    THEN [ret |-> 0, writes |-> <<>>]
    ELSE LET failed == {i \in 1..Len(InitWrites) : res[i] # 0}
             last   == IF failed = {} THEN Len(InitWrites)
                       ELSE CHOOSE i \in failed : \A j \in failed : i <= j
         IN  [ret |-> res[last], writes |-> SubSeq(InitWrites, 1, last)]

\* lp5817_init: res[i] is what the i-th i2c_write_dt of InitWrites returns.
\* ret is overwritten by the chip-enable, max-current, output-enable and update
\* writes, and accumulates only over the three dot-current writes.
lp5817_init(ready, res) ==
    IF ~ready
    THEN [ret |-> 0, writes |-> <<>>]
    ELSE LET ret1 == res[1]
             ret2 == res[2]
             ret3 == 0 + res[3] + res[4] + res[5]
             ret4 == res[6]
             ret5 == res[10]
         IN  [ret |-> ret5, writes |-> InitWrites]

k_timer_start(duration) == [armed |-> TRUE, remaining |-> duration]

k_timer_stop == [armed |-> FALSE, remaining |-> 0]

Stamp(t, w) == [by |-> t, reg |-> w.reg, val |-> w.val, at |-> now]

\* The history of a sequence started on a quiet indicator is kept whole; of the
\* writes seen during any other call the latest LogWindow (two color groups)
\* are kept.
Logged(log) ==
    IF (call.op = "flash" /\ call.quiet) \/ Len(log) <= LogWindow
    THEN log
    ELSE SubSeq(log, Len(log) - LogWindow + 1, Len(log))

NoFrame == [idx |-> 0, rgb |-> LED_OFF]

Frame(c) == [idx |-> 1, rgb |-> c]

----------------------------------------------------------------------------
(* Initial state: memory before rgbi_init.  rgbi_init does not write the   *)
(* flash fields, so they hold whatever the record's storage held.          *)

Boot(calls) ==
    /\ rgbi \in [pixels : {LED_OFF}, flashesAsked : {0}, flashesPerformed : {0},
                 onDuration : {0, 1}, offDuration : {0}, flashState : {0, 1},
                 rgbdev : {FALSE}]
    /\ flashTimer = k_timer_stop
    /\ workPending = FALSE
    /\ pc = "boot"
    /\ wpc = "idle"
    /\ setColorCtx = [t \in Threads |-> NoFrame]
    /\ initRet = "none"
    /\ initWriteFailed = FALSE
    /\ colorWriteFailed = FALSE
    /\ busLog = <<>>
    /\ call = [op |-> "none", color |-> LED_OFF, on |-> 0, off |-> 0, count |-> 0,
               quiet |-> FALSE, busy |-> FALSE, workerIdle |-> TRUE,
               workerPast |-> FALSE, stale |-> FALSE,
               workerActed |-> FALSE, ready |-> FALSE]
    /\ callsLeft = calls
    /\ now = 0

Init == Boot(MaxCalls)

\* the application makes one facade call after rgbi_init
OneCallInit == Boot(1)

----------------------------------------------------------------------------
(* rgbi_init *)

rgbi_init ==
    /\ pc = "boot"
    /\ \E ready \in BOOLEAN, res \in [1..10 -> WriteResults] :
         LET lp == lp5817_init(ready, res)
         IN  /\ busLog' = [i \in 1..Len(lp.writes) |-> Stamp("caller", lp.writes[i])]
             /\ initWriteFailed' = (ready /\ \E i \in 1..10 : res[i] # 0)
             /\ call' = [call EXCEPT !.op = "init", !.ready = ready]
             /\ IF lp.ret = 0
                THEN /\ initRet' = 0
                     /\ rgbi' = [rgbi EXCEPT !.rgbdev = TRUE]
                     /\ flashTimer' = k_timer_stop      \* k_timer_init
                     /\ workPending' = FALSE            \* k_work_init
                     /\ pc' = "idle"
                ELSE /\ initRet' = -1
                     /\ UNCHANGED <<rgbi, flashTimer, workPending>>
                     /\ pc' = "halt"
    /\ UNCHANGED <<wpc, setColorCtx, colorWriteFailed, callsLeft, now>>

----------------------------------------------------------------------------
(* Entering a facade call: the history variables restart *)

Quiet == ~isFlashing(rgbi) /\ ~workPending /\ wpc = "idle" /\ ~flashTimer.armed

\* flashDisplay_handler is running and has passed its onDuration test
PastCheck == wpc \notin {"idle", "h_check"}

\* rgbi_flash is entered right after rgbi_cancel with the work item that an
\* expiry of the cancelled sequence queued still waiting on the work queue
StaleWork(op) == op = "flash" /\ call.op = "cancel" /\ workPending /\ wpc = "idle"

Enter(op, c, on, off, n) ==
    /\ pc = "idle"
    /\ callsLeft > 0
    /\ callsLeft' = callsLeft - 1
    /\ busLog' = <<>>
    /\ call' = [op |-> op, color |-> c, on |-> on, off |-> off, count |-> n,
                quiet |-> Quiet, busy |-> isFlashing(rgbi), workerIdle |-> (wpc = "idle"),
                workerPast |-> PastCheck, stale |-> StaleWork(op),
                workerActed |-> FALSE, ready |-> FALSE]

\* a step of the work queue thread is recorded in the history of the call
Acted == call' = [call EXCEPT !.workerActed = TRUE]

----------------------------------------------------------------------------
(* lp5817_setColor: three i2c writes, each one a step of the thread t *)

AfterSetColor(t) ==
    IF t = "caller"
    THEN /\ pc' = (IF pc = "fl_color" THEN "fl_timer" ELSE "idle")
         /\ wpc' = wpc
    ELSE /\ wpc' = (IF wpc = "h_offcolor" THEN "h_clear" ELSE "h_rearm_on")
         /\ pc' = pc

\* mutant: a failed write ends lp5817_setColor
ColorWrite_abort(t, res) ==
    /\ setColorCtx[t].idx \in 1..3
    /\ busLog' = Logged(Append(busLog, Stamp(t, SetColorWrites(setColorCtx[t].rgb)[setColorCtx[t].idx])))
    /\ IF setColorCtx[t].idx < 3 /\ res = 0
       THEN /\ setColorCtx' = [setColorCtx EXCEPT ![t].idx = @ + 1]
            /\ UNCHANGED <<pc, wpc>>
       ELSE /\ setColorCtx' = [setColorCtx EXCEPT ![t] = NoFrame]
            /\ AfterSetColor(t)
    /\ IF t = "worker" THEN Acted ELSE call' = call
    /\ UNCHANGED <<rgbi, flashTimer, workPending, initRet, initWriteFailed,
                   callsLeft, now>>

\* ret = i2c_write_dt(rgb_ctrllr, cmd, sizeof(cmd)): one write of the group,
\* res what i2c_write_dt returns.  ret is overwritten by the next write and
\* read only by the LOG_ERR after the third.
ColorWrite(t, res) ==
    /\ setColorCtx[t].idx \in 1..3
    /\ busLog' = Logged(Append(busLog, Stamp(t, SetColorWrites(setColorCtx[t].rgb)[setColorCtx[t].idx])))
    /\ IF setColorCtx[t].idx < 3
       THEN /\ setColorCtx' = [setColorCtx EXCEPT ![t].idx = @ + 1]
            /\ UNCHANGED <<pc, wpc>>
       ELSE /\ setColorCtx' = [setColorCtx EXCEPT ![t] = NoFrame]
            /\ AfterSetColor(t)
    /\ IF t = "worker" THEN Acted ELSE call' = call
    /\ UNCHANGED <<rgbi, flashTimer, workPending, initRet, initWriteFailed,
                   callsLeft, now>>

lp5817_setColor(t) ==
    /\ \E res \in WriteResults : ColorWrite(t, res)
    /\ UNCHANGED colorWriteFailed

\* the same step, with the failure of a write kept in the history
fault_setColor(t) ==
    \E res \in WriteResults :
        /\ ColorWrite(t, res)
        /\ colorWriteFailed' = (colorWriteFailed \/ res # 0)

----------------------------------------------------------------------------
(* rgbi_setColor / rgbi_setColorFromPixels *)

rgbi_setColor ==
    /\ \E c \in Colors \cup {LED_OFF} : Enter("setColor", c, 0, 0, 0)
                                         /\ setColorCtx' = [setColorCtx EXCEPT !["caller"] = Frame(c)]
    /\ pc' = "set_color"
    /\ UNCHANGED <<rgbi, flashTimer, workPending, wpc, initRet, initWriteFailed, colorWriteFailed, now>>

\* rgbi_setColor with any color
color_setColor ==
    /\ \E c \in AnyColor : Enter("setColor", c, 0, 0, 0)
                             /\ setColorCtx' = [setColorCtx EXCEPT !["caller"] = Frame(c)]
    /\ pc' = "set_color"
    /\ UNCHANGED <<rgbi, flashTimer, workPending, wpc, initRet, initWriteFailed, colorWriteFailed, now>>

\* rgbi_setColorFromPixels(rgbi, red, green, blue) with any channel values
rgbi_setColorFromPixels ==
    /\ \E red \in Channels, green \in Channels, blue \in Channels :
         /\ Enter("setColorFromPixels", [r |-> red, g |-> green, b |-> blue], 0, 0, 0)
         /\ setColorCtx' = [setColorCtx EXCEPT !["caller"] =
                                Frame([r |-> red, g |-> green, b |-> blue])]
    /\ pc' = "set_color"
    /\ UNCHANGED <<rgbi, flashTimer, workPending, wpc, initRet, initWriteFailed, colorWriteFailed, now>>

(* rgbi_off: the body, run by the facade call and by rgbi_cancel *)

\* mutant: the busy test is missing
rgbi_off_body_unguarded ==
    /\ pc' = "off_color"
    /\ setColorCtx' = [setColorCtx EXCEPT !["caller"] = Frame(LED_OFF)]

rgbi_off_body ==
    IF ~isFlashing(rgbi)
    THEN /\ pc' = "off_color"
         /\ setColorCtx' = [setColorCtx EXCEPT !["caller"] = Frame(LED_OFF)]
    ELSE /\ pc' = "idle"
         /\ setColorCtx' = setColorCtx

rgbi_off ==
    /\ Enter("off", LED_OFF, 0, 0, 0)
    /\ rgbi_off_body
    /\ UNCHANGED <<rgbi, flashTimer, workPending, wpc, initRet, initWriteFailed, colorWriteFailed, now>>

----------------------------------------------------------------------------
(* rgbi_flash, one step per store / call *)

callerFrame == <<workPending, wpc, setColorCtx, initRet, initWriteFailed, colorWriteFailed,
                 busLog, call, callsLeft, now>>

\* Entry of rgbi_flash and its first store, rgbi->onDuration = onDuration.
\* The application starts a sequence only when rgbi_isBusy() returns false (it
\* cancels a running sequence first); ons, offs and counts are the arguments
\* it may pass.
FlashCall(ons, offs, counts) ==
    /\ ~isFlashing(rgbi)
    /\ \E c \in FlashColors, on \in ons, off \in offs, n \in counts :
         /\ Enter("flash", c, on, off, n)
         /\ rgbi' = [rgbi EXCEPT !.onDuration = on]
    /\ pc' = "fl_off"
    /\ UNCHANGED <<flashTimer, workPending, wpc, setColorCtx, initRet,
                   initWriteFailed, colorWriteFailed, now>>

\* Under abstract time only onDuration == 0 or > 0 matters, and no length of
\* the OFF phase: the application asks for K_NO_WAIT or MaxDur ticks.
rgbi_flash == FlashCall({K_NO_WAIT, MaxDur}, {MaxDur}, Counts)

\* On the clock the application asks for every pair of durations.
clock_flash == FlashCall(Durations, Durations, Counts)

\* rgbi->offDuration = offDuration
flash_offDuration ==
    /\ pc = "fl_off"
    /\ rgbi' = [rgbi EXCEPT !.offDuration = call.off]
    /\ pc' = "fl_asked"
    /\ UNCHANGED <<flashTimer, callerFrame>>

\* rgbi->flashesAsked = count
flash_flashesAsked ==
    /\ pc = "fl_asked"
    /\ rgbi' = [rgbi EXCEPT !.flashesAsked = call.count]
    /\ pc' = "fl_performed"
    /\ UNCHANGED <<flashTimer, callerFrame>>

\* rgbi->flashesPerformed = 0
flash_flashesPerformed ==
    /\ pc = "fl_performed"
    /\ rgbi' = [rgbi EXCEPT !.flashesPerformed = 0]
    /\ pc' = "fl_pixels"
    /\ UNCHANGED <<flashTimer, callerFrame>>

\* memcpy(&rgbi->pixels, pixels), then the call of rgbi_setColor(rgbi, pixels)
flash_pixels ==
    /\ pc = "fl_pixels"
    /\ rgbi' = [rgbi EXCEPT !.pixels = call.color]
    /\ setColorCtx' = [setColorCtx EXCEPT !["caller"] = Frame(call.color)]
    /\ pc' = "fl_color"
    /\ UNCHANGED <<flashTimer, workPending, wpc, initRet, initWriteFailed, colorWriteFailed,
                   busLog, call, callsLeft, now>>

\* k_timer_start(&rgbi->flashTimer, rgbi->onDuration, K_NO_WAIT)
flash_timer ==
    /\ pc = "fl_timer"
    /\ flashTimer' = k_timer_start(rgbi.onDuration)
    /\ pc' = "fl_state"
    /\ UNCHANGED <<rgbi, callerFrame>>

\* rgbi->flashState = 1
flash_flashState ==
    /\ pc = "fl_state"
    /\ rgbi' = [rgbi EXCEPT !.flashState = 1]
    /\ pc' = "idle"
    /\ UNCHANGED <<flashTimer, callerFrame>>

----------------------------------------------------------------------------
(* rgbi_cancel *)

\* k_timer_stop(&rgbi->flashTimer)
rgbi_cancel ==
    /\ Enter("cancel", LED_OFF, 0, 0, 0)
    /\ flashTimer' = k_timer_stop
    /\ pc' = "cn_duration"
    /\ UNCHANGED <<rgbi, workPending, wpc, setColorCtx, initRet,
                   initWriteFailed, colorWriteFailed, now>>

\* rgbi->onDuration = K_NO_WAIT
cancel_onDuration ==
    /\ pc = "cn_duration"
    /\ rgbi' = [rgbi EXCEPT !.onDuration = K_NO_WAIT]
    /\ pc' = "cn_off"
    /\ UNCHANGED <<flashTimer, callerFrame>>

\* rgbi_off(rgbi)
cancel_off ==
    /\ pc = "cn_off"
    /\ rgbi_off_body
    /\ UNCHANGED <<rgbi, flashTimer, workPending, wpc, initRet, initWriteFailed, colorWriteFailed,
                   busLog, call, callsLeft, now>>

----------------------------------------------------------------------------
(* flashTimerExpiry: the timer interrupt.  The timer is one-shot (period    *)
(* K_NO_WAIT); k_work_submit of an item that is already queued is a no-op. *)

flashTimerExpiry ==
    /\ flashTimer.armed
    /\ flashTimer' = k_timer_stop
    /\ workPending' = TRUE
    /\ UNCHANGED <<rgbi, pc, wpc, setColorCtx, initRet, initWriteFailed, colorWriteFailed,
                   busLog, call, callsLeft, now>>

----------------------------------------------------------------------------
(* flashDisplay_handler on the system work queue, one step per access *)

workerFrame == <<workPending, pc, setColorCtx, initRet, initWriteFailed, colorWriteFailed,
                 busLog, callsLeft, now>>

\* the work queue takes the item: it is no longer queued while its handler runs
handler_start ==
    /\ workPending
    /\ wpc = "idle"
    /\ workPending' = FALSE
    /\ wpc' = "h_check"
    /\ Acted
    /\ UNCHANGED <<rgbi, flashTimer, pc, setColorCtx, initRet, initWriteFailed, colorWriteFailed,
                   busLog, callsLeft, now>>

\* if (rgbi->onDuration.ticks > 0)
handler_check ==
    /\ wpc = "h_check"
    /\ wpc' = (IF rgbi.onDuration > 0 THEN "h_state" ELSE "idle")
    /\ Acted
    /\ UNCHANGED <<rgbi, flashTimer, workerFrame>>

\* if (rgbi->flashState): ON now, call rgbi_setColorFromPixels(rgbi, 0, 0, 0);
\* else: OFF now
handler_flashState ==
    /\ wpc = "h_state"
    /\ IF rgbi.flashState # 0
       THEN /\ wpc' = "h_offcolor"
            /\ setColorCtx' = [setColorCtx EXCEPT !["worker"] = Frame(LED_OFF)]
       ELSE /\ wpc' = "h_set"
            /\ setColorCtx' = setColorCtx
    /\ Acted
    /\ UNCHANGED <<rgbi, flashTimer, workPending, pc, initRet, initWriteFailed, colorWriteFailed,
                   busLog, callsLeft, now>>

\* rgbi->flashState = 0
handler_clear ==
    /\ wpc = "h_clear"
    /\ rgbi' = [rgbi EXCEPT !.flashState = 0]
    /\ wpc' = "h_count"
    /\ Acted
    /\ UNCHANGED <<flashTimer, workerFrame>>

\* mutant: a flash is counted twice
handler_count_twice ==
    /\ wpc = "h_count"
    /\ rgbi' = [rgbi EXCEPT !.flashesPerformed = (@ + 2) % 256]
    /\ wpc' = "h_more"
    /\ Acted
    /\ UNCHANGED <<flashTimer, workerFrame>>

\* rgbi->flashesPerformed++ (uint8_t)
handler_count ==
    /\ wpc = "h_count"
    /\ rgbi' = [rgbi EXCEPT !.flashesPerformed = (@ + 1) % 256]
    /\ wpc' = "h_more"
    /\ Acted
    /\ UNCHANGED <<flashTimer, workerFrame>>

\* mutant: the continuous case (flashesAsked == 0) is not exempted
MoreFlashes_counted(ind) == ind.flashesPerformed < ind.flashesAsked

\* mutant: the count is not looked at, the sequence is never ended
MoreFlashes_always(ind) == ind.flashesAsked >= 0

\* if (flashesPerformed < flashesAsked || flashesAsked == 0)
MoreFlashes(ind) == ind.flashesPerformed < ind.flashesAsked \/ ind.flashesAsked = 0

handler_more ==
    /\ wpc = "h_more"
    /\ wpc' = (IF MoreFlashes(rgbi) THEN "h_rearm_off" ELSE "h_reset_asked")
    /\ Acted
    /\ UNCHANGED <<rgbi, flashTimer, workerFrame>>

OffWait_on(ind) == ind.onDuration

\* k_timer_start(&rgbi->flashTimer, rgbi->offDuration, K_NO_WAIT)
OffWait(ind) == ind.offDuration

handler_rearm_off ==
    /\ wpc = "h_rearm_off"
    /\ flashTimer' = k_timer_start(OffWait(rgbi))
    /\ wpc' = "idle"
    /\ Acted
    /\ UNCHANGED <<rgbi, workerFrame>>

\* rgbi->flashesAsked = 0
handler_reset_asked ==
    /\ wpc = "h_reset_asked"
    /\ rgbi' = [rgbi EXCEPT !.flashesAsked = 0]
    /\ wpc' = "h_reset_performed"
    /\ Acted
    /\ UNCHANGED <<flashTimer, workerFrame>>

\* rgbi->flashesPerformed = 0
handler_reset_performed ==
    /\ wpc = "h_reset_performed"
    /\ rgbi' = [rgbi EXCEPT !.flashesPerformed = 0]
    /\ wpc' = "h_reset_duration"
    /\ Acted
    /\ UNCHANGED <<flashTimer, workerFrame>>

\* rgbi->onDuration = K_NO_WAIT
handler_reset_duration ==
    /\ wpc = "h_reset_duration"
    /\ rgbi' = [rgbi EXCEPT !.onDuration = K_NO_WAIT]
    /\ wpc' = "idle"
    /\ Acted
    /\ UNCHANGED <<flashTimer, workerFrame>>

\* rgbi->flashState = 1
handler_set ==
    /\ wpc = "h_set"
    /\ rgbi' = [rgbi EXCEPT !.flashState = 1]
    /\ wpc' = "h_next"
    /\ Acted
    /\ UNCHANGED <<flashTimer, workerFrame>>

\* if (flashesPerformed < flashesAsked) rgbi_setColor(rgbi, &rgbi->pixels)
NextFlash(ind) == ind.flashesPerformed < ind.flashesAsked

handler_next ==
    /\ wpc = "h_next"
    /\ IF NextFlash(rgbi)
       THEN /\ wpc' = "h_oncolor"
            /\ setColorCtx' = [setColorCtx EXCEPT !["worker"] = Frame(rgbi.pixels)]
       ELSE /\ wpc' = "idle"
            /\ setColorCtx' = setColorCtx
    /\ Acted
    /\ UNCHANGED <<rgbi, flashTimer, workPending, pc, initRet, initWriteFailed, colorWriteFailed,
                   busLog, callsLeft, now>>

\* k_timer_start(&rgbi->flashTimer, rgbi->onDuration, K_NO_WAIT)
handler_rearm_on ==
    /\ wpc = "h_rearm_on"
    /\ flashTimer' = k_timer_start(rgbi.onDuration)
    /\ wpc' = "idle"
    /\ Acted
    /\ UNCHANGED <<rgbi, workerFrame>>

----------------------------------------------------------------------------
(* Specifications *)

CallerCalls ==
    \/ rgbi_init
    \/ rgbi_setColor
    \/ rgbi_off
    \/ flash_offDuration
    \/ flash_flashesAsked
    \/ flash_flashesPerformed
    \/ flash_pixels
    \/ flash_timer
    \/ flash_flashState
    \/ rgbi_cancel
    \/ cancel_onDuration
    \/ cancel_off

CallerOther == CallerCalls \/ lp5817_setColor("caller")

CallerStep == rgbi_flash \/ CallerOther

\* the steps of a call that has been entered (what the caller thread will do
\* without any decision of the application)
CallerProgress ==
    \/ flash_offDuration
    \/ flash_flashesAsked
    \/ flash_flashesPerformed
    \/ flash_pixels
    \/ flash_timer
    \/ flash_flashState
    \/ cancel_onDuration
    \/ cancel_off
    \/ lp5817_setColor("caller")

HandlerStep ==
    \/ handler_start
    \/ handler_check
    \/ handler_flashState
    \/ handler_clear
    \/ handler_count
    \/ handler_more
    \/ handler_rearm_off
    \/ handler_reset_asked
    \/ handler_reset_performed
    \/ handler_reset_duration
    \/ handler_set
    \/ handler_next
    \/ handler_rearm_on

WorkerStep == HandlerStep \/ lp5817_setColor("worker")

\* Time is abstract: an armed timer may expire at any moment.
Next == CallerStep \/ WorkerStep \/ flashTimerExpiry

Spec == Init /\ [][Next]_vars

\* The scheduling of the target: an armed timer expires, the work queue runs
\* its items, and a facade call that was entered runs to its return.  The
\* application makes one facade call after rgbi_init and then leaves the
\* indicator to the timer and the work queue.
FairSpec ==
    /\ OneCallInit /\ [][Next]_vars
    /\ WF_vars(flashTimerExpiry)
    /\ WF_vars(WorkerStep)
    /\ WF_vars(CallerProgress)

----------------------------------------------------------------------------
(* The simulated clock: code runs in no time.  The clock advances one tick  *)
(* when the caller is between two calls, the work queue is empty and the    *)
(* timer is not due; the timer expires when its time has run out.           *)

Tick ==
    /\ pc = "idle"
    /\ wpc = "idle"
    /\ ~workPending
    /\ flashTimer.armed => flashTimer.remaining > 0
    /\ now < MaxTime
    /\ now' = now + 1
    /\ flashTimer' = IF flashTimer.armed
                     THEN [flashTimer EXCEPT !.remaining = @ - 1]
                     ELSE flashTimer
    /\ UNCHANGED <<rgbi, workPending, pc, wpc, setColorCtx, initRet, initWriteFailed, colorWriteFailed,
                   busLog, call, callsLeft>>

TimerDue == flashTimer.remaining = 0 /\ flashTimerExpiry

\* one facade call after rgbi_init
ClockNext == clock_flash \/ CallerOther \/ WorkerStep \/ TimerDue \/ Tick

ClockSpec == OneCallInit /\ [][ClockNext]_vars

----------------------------------------------------------------------------
(* Failing color writes: rgbi_init, then one facade call, with the result of *)
(* every i2c write of a color group chosen freely and kept in the history.   *)

FaultNext ==
    \/ rgbi_flash
    \/ CallerCalls
    \/ fault_setColor("caller")
    \/ HandlerStep
    \/ fault_setColor("worker")
    \/ flashTimerExpiry

FaultSpec == OneCallInit /\ [][FaultNext]_vars

----------------------------------------------------------------------------
(* Setting a color: rgbi_init, then one call of rgbi_setColor or of          *)
(* rgbi_setColorFromPixels with any channel values.                          *)

ColorNext ==
    \/ rgbi_init
    \/ color_setColor
    \/ rgbi_setColorFromPixels
    \/ lp5817_setColor("caller")

ColorSpec == OneCallInit /\ [][ColorNext]_vars

----------------------------------------------------------------------------
(* Observations used by the claims *)

\* nothing is in flight: no further step happens without a facade call
Settled == pc = "idle" /\ wpc = "idle" /\ ~workPending /\ ~flashTimer.armed

\* the bus writes of the history, without who issued them and when
Written == [i \in 1..Len(busLog) |-> [reg |-> busLog[i].reg, val |-> busLog[i].val]]

\* the writes the caller thread issued, in order
CallerWritten ==
    LET own == SelectSeq(busLog, LAMBDA w : w.by = "caller")
    IN  [i \in 1..Len(own) |-> [reg |-> own[i].reg, val |-> own[i].val]]

\* a finite sequence started by rgbi_flash on an idle indicator with nothing in
\* flight, and no facade call since
FlashTracked == call.op = "flash" /\ call.quiet /\ call.on > 0 /\ call.count > 0

\* a continuous sequence started the same way
ContinuousTracked == call.op = "flash" /\ call.quiet /\ call.on > 0 /\ call.count = 0

\* the i-th write of ON, OFF, ON, OFF, ... in the color of the call
ExpectedWrite(i) ==
    SetColorWrites(IF ((i - 1) \div 3) % 2 = 0 THEN call.color ELSE LED_OFF)[((i - 1) % 3) + 1]

----------------------------------------------------------------------------
(* C1: a finite sequence of N flashes started on an idle indicator puts      *)
(* exactly N ON groups and N OFF groups on the bus, alternating, the first   *)
(* ON group written by rgbi_flash itself and all later groups by the work    *)
(* queue; when nothing is in flight any more all 2N groups have been         *)
(* written.                                                                  *)
C1_ExactAlternation ==
    FlashTracked =>
        /\ Len(busLog) <= 6 * call.count
        /\ \A i \in 1..Len(busLog) :
             /\ Written[i] = ExpectedWrite(i)
             /\ busLog[i].by = (IF i <= 3 THEN "caller" ELSE "worker")
        /\ Settled => Len(busLog) = 6 * call.count

(* C7: right after rgbi_flash has returned, and before the work queue has    *)
(* processed anything, rgbi_isBusy() is true -- as claimed, for every        *)
(* onDuration.                                                               *)
C7_BusyAfterFlash ==
    (call.op = "flash" /\ pc = "idle" /\ ~call.workerActed) => isFlashing(rgbi)

(* C7 as amended: the same for onDuration > 0. *)
C7_BusyAfterFlashPositive ==
    (call.op = "flash" /\ call.on > 0 /\ pc = "idle" /\ ~call.workerActed)
        => isFlashing(rgbi)

C7_Witness ==
    /\ call.op = "flash" /\ call.on > 0 /\ call.count = 0
    /\ pc = "idle" /\ ~call.workerActed /\ flashTimer.armed /\ isFlashing(rgbi)

(* C9: rgbi_init on a bus that is not ready returns a failure and writes     *)
(* nothing to the bus.                                                       *)
C9_NotReadyFails ==
    (call.op = "init" /\ ~call.ready) => (initRet # 0 /\ busLog = <<>>)

(* C10: on a ready bus rgbi_init returns 0 exactly when every write of the   *)
(* initialization sequence succeeded.                                        *)
C10_FailsIffAWriteFailed ==
    (call.op = "init" /\ call.ready) => (initRet = 0 <=> ~initWriteFailed)

C6_OffStep == pc = "idle" /\ callsLeft' = callsLeft - 1 /\ call'.op = "off"

C6_OffNoOpWhenBusy ==
    /\ [][(C6_OffStep /\ isFlashing(rgbi)) =>
             /\ pc' = "idle"
             /\ busLog' = <<>>
             /\ UNCHANGED <<rgbi, flashTimer, workPending, setColorCtx>>]_vars
    /\ []((call.op = "off" /\ pc = "idle") =>
             CallerWritten = (IF call.busy THEN <<>> ELSE SetColorWrites(LED_OFF)))

C6_Witness ==
    /\ call.op = "off" /\ call.busy /\ pc = "idle"
    /\ isFlashing(rgbi) /\ flashTimer.armed /\ rgbi.flashesAsked > 0

(* C3: rgbi_cancel called while a sequence is in its ON or OFF phase, the     *)
(* work queue not yet running the handler (a work item may be queued): once   *)
(* it has returned the timer is stopped, rgbi_isBusy() is false and the last  *)
(* writes on the bus are the (0,0,0) group of rgbi_cancel -- no expiry and no *)
(* write of the work queue follows.                                           *)
C3_CancelIsFinal ==
    (call.op = "cancel" /\ call.busy /\ call.workerIdle /\ pc = "idle") =>
        /\ ~isFlashing(rgbi)
        /\ ~flashTimer.armed
        /\ Len(busLog) >= 3
        /\ \A i \in 1..3 :
             /\ busLog[Len(busLog) - 3 + i].by = "caller"
             /\ Written[Len(busLog) - 3 + i] = SetColorWrites(LED_OFF)[i]

\* the Idle state of the indicator record
Idle == rgbi.onDuration = 0 /\ rgbi.flashesAsked = 0 /\ rgbi.flashesPerformed = 0

(* C2: a finite sequence (N > 0, onDuration > 0) started on an idle          *)
(* indicator reaches Idle if no other facade call is made, the timer expires *)
(* and the work queue runs: onDuration, flashesAsked and flashesPerformed    *)
(* are 0.  From then on, until the next facade call, the timer is not armed  *)
(* and no write is put on the bus.                                           *)
C2_ReachesIdle ==
    /\ FlashTracked ~> (Idle \/ ~FlashTracked)
    /\ []((FlashTracked /\ Idle) => ~flashTimer.armed)
    /\ [][(FlashTracked /\ Idle /\ callsLeft' = callsLeft)
            => (Idle' /\ busLog' = busLog /\ ~flashTimer'.armed)]_vars

C2_Witness ==
    /\ FlashTracked /\ Idle /\ Settled
    /\ call.count = MaxCount /\ Len(busLog) = 6 * MaxCount

(* C5: a continuous sequence (count == 0) keeps flashing while no other      *)
(* facade call is made: after the OFF group of every flash the work queue    *)
(* eventually writes the next ON group.                                      *)
C5_KeepsFlashing ==
    \A k \in 1..MaxCount :
        (ContinuousTracked /\ Len(busLog) = 6 * k)
            ~> (~ContinuousTracked \/ Len(busLog) > 6 * k)

\* when the i-th write of a sequence is due: flash k = 0, 1, ... turns the LED
\* on at k * (on + off) and off at k * (on + off) + on
ExpectedTime(i) ==
    LET group == (i - 1) \div 3
        k     == group \div 2
    IN  k * (call.on + call.off) + (IF group % 2 = 1 THEN call.on ELSE 0)

(* C8: on the simulated clock the k-th ON group of a finite sequence is      *)
(* written k * (onDuration + offDuration) after the rgbi_flash call and the  *)
(* k-th OFF group onDuration later; after the last OFF group the indicator   *)
(* becomes Idle without waiting, the timer not armed again.                  *)
C8_WriteTimes ==
    FlashTracked =>
        /\ \A i \in 1..Len(busLog) : busLog[i].at - busLog[1].at = ExpectedTime(i)
        /\ (Len(busLog) = 6 * call.count /\ ~Idle) =>
               (now = busLog[Len(busLog)].at /\ ~flashTimer.armed)
        /\ Idle => (Len(busLog) = 6 * call.count /\ ~flashTimer.armed)

\* flash(RED, 100, 200, 3) in units of 100 ms: writes at 0, 1, 3, 4, 6, 7
C8_Witness ==
    /\ FlashTracked /\ Idle /\ Settled
    /\ call.color = LED_RED /\ call.on = 1 /\ call.off = 2 /\ call.count = 3
    /\ Len(busLog) = 18
    /\ \A g \in 0..5 : busLog[3 * g + 1].at - busLog[1].at = <<0, 1, 3, 4, 6, 7>>[g + 1]
    /\ now = busLog[1].at + 7

(* C11: on a ready bus rgbi_init writes chip-enable, max-current, the three  *)
(* dot-current registers in ascending order, output-enable, the (0,0,0)      *)
(* color group and last the update register -- in this order whichever of    *)
(* the writes fail.                                                          *)
C11_InitOrder ==
    (call.op = "init" /\ call.ready) =>
        /\ [i \in 1..Len(busLog) |-> busLog[i].reg] =
               << LP5817_REG_CHIPENABLE, LP5817_REG_MAXCURRENT,
                  LP5817_REG_DOTCURRENT_0, LP5817_REG_DOTCURRENT_0 + 1,
                  LP5817_REG_DOTCURRENT_0 + 2, LP5817_REG_OUTENABLE,
                  LP5817_REG_INTENSITY2, LP5817_REG_INTENSITY0,
                  LP5817_REG_INTENSITY1, LP5817_REG_UPDATE >>
        /\ \A i \in 1..Len(busLog) :
               busLog[i].reg \in {LP5817_REG_INTENSITY0, LP5817_REG_INTENSITY1,
                                  LP5817_REG_INTENSITY2} => busLog[i].val = 0
        /\ busLog[Len(busLog)].reg = LP5817_REG_UPDATE

\* rgbi_init has run on a ready bus, a write failed, and it returned success
C11_Witness ==
    /\ call.op = "init" /\ call.ready /\ initWriteFailed /\ initRet = 0
    /\ Len(busLog) > 0

\* how many writes of the history go to one of the registers regs
WritesTo(regs) == Cardinality({i \in 1..Len(busLog) : busLog[i].reg \in regs})

(* C12, as claimed: on a ready bus rgbi_init issues 9 bus writes.            *)
C12_NineWrites ==
    (call.op = "init" /\ call.ready) => Len(busLog) = 9

(* C12 as amended: on a ready bus rgbi_init issues 1 chip-enable, 1          *)
(* max-current, 3 dot-current, 1 output-enable, the 3 writes of the zero     *)
(* color and 1 update write, 10 bus writes in all, whichever of them fail.   *)
C12_TenWrites ==
    (call.op = "init" /\ call.ready) =>
        /\ WritesTo({LP5817_REG_CHIPENABLE}) = 1
        /\ WritesTo({LP5817_REG_MAXCURRENT}) = 1
        /\ WritesTo({LP5817_REG_DOTCURRENT_0, LP5817_REG_DOTCURRENT_0 + 1,
                     LP5817_REG_DOTCURRENT_0 + 2}) = 3
        /\ WritesTo({LP5817_REG_OUTENABLE}) = 1
        /\ WritesTo({LP5817_REG_INTENSITY0, LP5817_REG_INTENSITY1,
                     LP5817_REG_INTENSITY2}) = 3
        /\ WritesTo({LP5817_REG_UPDATE}) = 1
        /\ Len(busLog) = 10

\* rgbi_init has run on a ready bus and failed on its update write
C12_Witness ==
    /\ call.op = "init" /\ call.ready /\ initWriteFailed /\ initRet = -1
    /\ pc = "halt" /\ Len(busLog) = 10

\* a color write has been entered and has not returned yet, or has just returned
ColorCall == call.op \in {"setColor", "setColorFromPixels"}

C14_InitSetsIdle ==
    (call.op = "init" /\ initRet = 0) => (rgbi.onDuration = 0 /\ ~isFlashing(rgbi))

\* the indicator is busy with a sequence started on an idle indicator, and
\* nothing is running or queued: no facade call, no handler, no work item
BusyAtRest ==
    /\ call.op = "flash" /\ call.quiet /\ call.on > 0
    /\ isFlashing(rgbi)
    /\ pc = "idle" /\ wpc = "idle" /\ ~workPending

(* C15: while a sequence is active (rgbi_isBusy() true) the timer is armed:  *)
(* the indicator is never busy with no timer armed.  Stated for the states    *)
(* in which the timer is all that can carry the sequence on (no call and no   *)
(* handler running, no work item queued).                                     *)
C15_BusyHasTimer == BusyAtRest => flashTimer.armed

\* the same for finite sequences only
C15_FiniteBusyHasTimer == (BusyAtRest /\ call.count > 0) => flashTimer.armed

\* a step of a running sequence: not the entry of a facade call, not the store
\* of rgbi_flash that starts the count, not the reset that ends the sequence
SequenceStep ==
    /\ isFlashing(rgbi)
    /\ callsLeft' = callsLeft
    /\ pc # "fl_performed"
    /\ wpc # "h_reset_performed"

C17_GroupsContiguous ==
    \A i \in 1..(Len(busLog) - 1) :
        busLog[i].reg \in {LP5817_REG_INTENSITY2, LP5817_REG_INTENSITY0}
            => busLog[i + 1].by = busLog[i].by

(* C18: the result of a color write has no influence: a step that is a bus   *)
(* write returning one result is the same step -- same write, same next      *)
(* state of record, timer, work item and both threads -- for every other     *)
(* result; after a failed write no error is reported and there is no error   *)
(* state, and a finite sequence with failed writes ends Idle like any other. *)
C18_FailuresAreSilent ==
    /\ [][\A t \in Threads : \A res \in WriteResults :
            (\E r0 \in WriteResults : ColorWrite(t, r0)) => ColorWrite(t, res)]_vars
    /\ [](colorWriteFailed => (initRet = 0 /\ pc # "halt"))
    /\ []((colorWriteFailed /\ FlashTracked /\ Settled) => Idle)

\* a finite sequence in which a write failed has run to its end
C18_Witness ==
    /\ colorWriteFailed /\ FlashTracked /\ Settled /\ Idle
    /\ call.count = MaxCount /\ Len(busLog) = 6 * MaxCount

\* rgbi_flash has been entered and has not yet started its timer: no expiry
\* of the new sequence can have happened
BeforeOwnTimer == pc \in {"fl_off", "fl_asked", "fl_performed", "fl_pixels",
                          "fl_color", "fl_timer"}

(* C19: a work item of a cancelled sequence that is still queued when        *)
(* rgbi_flash starts the next sequence does nothing to it: run before the    *)
(* new sequence has started its own timer, the handler stops at its          *)
(* onDuration test -- it writes nothing, changes no counter and no flash     *)
(* state and does not start the timer.                                       *)
C19_StaleWorkIsInert ==
    /\ []((call.op = "flash" /\ call.stale /\ BeforeOwnTimer) => ~PastCheck)
    /\ [][(call.op = "flash" /\ call.stale /\ BeforeOwnTimer /\ pc' = pc)
            => (/\ busLog' = busLog
                /\ flashTimer' = flashTimer
                /\ rgbi'.flashesPerformed = rgbi.flashesPerformed
                /\ rgbi'.flashesAsked = rgbi.flashesAsked
                /\ rgbi'.flashState = rgbi.flashState)]_vars

\* the color the bus writes of the history leave in the intensity registers:
\* per register the value of its latest write (0 if the history has none)
LastWritten(reg) ==
    LET at == {i \in 1..Len(busLog) : busLog[i].reg = reg}
    IN  IF at = {} THEN 0
        ELSE busLog[CHOOSE i \in at : \A j \in at : j <= i].val

ShownColor == [r |-> LastWritten(LP5817_REG_INTENSITY2),
               g |-> LastWritten(LP5817_REG_INTENSITY0),
               b |-> LastWritten(LP5817_REG_INTENSITY1)]

(* C20: rgbi_cancel called while the handler is past its onDuration test     *)
(* leaves the LED off: when the call has returned, the handler has finished  *)
(* and nothing is queued or armed any more, the color on the device is       *)
(* (0,0,0) and rgbi_isBusy() is false.                                       *)
C20_CancelLeavesOff ==
    (call.op = "cancel" /\ call.workerPast /\ Settled) =>
        (ShownColor = LED_OFF /\ ~isFlashing(rgbi))

\* the handler is in its OFF-to-ON branch (it read flashState == 0)
InOffToOn == wpc \in {"h_set", "h_next", "h_oncolor", "h_rearm_on"}

(* C21: the first handler run of a sequence finds flashState == 1 and makes  *)
(* the ON-to-OFF transition: in a sequence started on an idle indicator,     *)
(* while no flash has been counted yet the handler is never in its           *)
(* OFF-to-ON branch -- also when flashState was 0 before rgbi_flash and the  *)
(* expiry is processed before rgbi_flash has returned.                       *)
C21_FirstExpiryTurnsOff ==
    (call.op = "flash" /\ call.quiet /\ call.on > 0 /\ rgbi.flashesPerformed = 0)
        => ~InOffToOn

====
